---- MODULE Spec2Model ----
(***************************************************************************)
(* A model of gbulb/glib_events.py: the GLib / Gtk event loops of gbulb.   *)
(*                                                                         *)
(* One loop object is modelled (either variant, on the default context or, *)
(* for the GLib variant, on a context of its own) together with the part   *)
(* of the foreign library it drives: the watches (sources) attached to its *)
(* context, the wakeup timeout, the main-loop object and its quit flag,    *)
(* and the process-wide default SIGINT handler.                            *)
(*                                                                         *)
(* The loop's thread is at one of these places (pc):                       *)
(*   "idle"      outside run_forever(); the caller may use the loop's API  *)
(*               and the context may be iterated by foreign code           *)
(*   "ruc_call"  run_until_complete() is about to call run_forever()       *)
(*   "rf_init"   GLibEventLoop.run_forever() in its first _dispatch()      *)
(*   "rf_check"  GLibEventLoop.run_forever() at `if l.is_running()`        *)
(*   "running"   blocked in MainLoop.run() / Gtk.main()                    *)
(*   "ruc_ok", "ruc_exc"  run_until_complete() after run_forever()         *)
(*               returned / raised                                         *)
(* and a dispatch pass, when one is in progress, remembers who called      *)
(* _dispatch() (dfrom) and the handle whose callback is executing (cur).   *)
(* A user callback performs one call of the loop's API.                    *)
(***************************************************************************)
EXTENDS Integers, Sequences, FiniteSets, TLC

\* ------------------------------------------------------------- bounds
\* The number of handles ever created in one behaviour: of the loop used for
\* scheduling and its life cycle, and of the loop used for its registration tables.
MaxHandles == 3
MaxTableHandles == 2
MaxLiveHandles == 2

\* The number of loops a policy makes in one behaviour.
MaxPolicyLoops == 3

\* The keys of the registration tables, the user's callbacks, the delays of
\* call_later and the results of the task of run_until_complete.
Fds == {3}
Sigs == {15}
Pids == {100}
UserCallbacks == {"a", "b"}
SoonCallbacks == {"a"}
Delays == {-1, 0, 1}
Results == {7}

\* The other loops that may be made on the default context.
OtherLoops == {"other1", "other2"}

\* Wait statuses as the kernel encodes them: exit code c, death by signal sig
\* (with a core dump or not), stop by signal sig.
Exited(c) == c * 256
Signaled(sig) == sig
CoreDumped(sig) == sig + 128
Stopped(sig) == sig * 256 + 127

\* The statuses a child watch reports.
ExitCodes == {0, 1, 128, 129, 137, 255}
TermSignals == {9, 15}
Statuses ==
  {Exited(c) : c \in ExitCodes} \cup {Signaled(g) : g \in TermSignals}
    \cup {CoreDumped(g) : g \in TermSignals} \cup {Stopped(g) : g \in TermSignals}

\* The status reported where the return code is not looked at.
PlainStatuses == {Exited(0)}

Max(a, b) == IF a > b THEN a ELSE b

HandleIds == 1..Max(MaxHandles, Max(MaxTableHandles, MaxLiveHandles))

VARIABLES
  variant,       \* "glib" (GLibEventLoop) or "gtk" (GtkEventLoop)
  ctxDefault,    \* self._context == GLib.main_context_default()
  budget,        \* the number of handles this behaviour may create
  handles,       \* the Handle objects created so far, by id
  nextId,        \* the id of the next Handle created
  readers,       \* self._readers: fd -> handle id, 0 when absent
  writers,       \* self._writers
  sighandlers,   \* self._sighandlers
  chldhandlers,  \* self._chldhandlers
  handlers,      \* self._handlers
  ready,         \* self._ready
  wakeup,        \* self._wakeup is not None
  wakeupLive,    \* live wakeup timeouts attached to the context
  will_dispatch, \* self._will_dispatch
  mainloop,      \* GLibEventLoop._mainloop: 0 is None, 1 the object of this run
  running,       \* GtkEventLoop._running
  quit,          \* the main loop was asked to quit (MainLoop.quit / Gtk.main_quit)
  interrupted,   \* self._interrupted
  sigTarget,     \* DefaultSigINTHandler._loop: "none", "self" or another loop
  pc,            \* where the loop's thread is
  dfrom,         \* who called the _dispatch() in progress, "none" when none
  dsrc,          \* the handle whose watch called back, for dfrom = "source"
  ntodo,         \* iterations left in _dispatch()'s for loop
  cur,           \* the handle whose callback is executing, 0 when none
  snap,          \* history: self._ready when the pass in progress started
  ran,           \* history: the handles run so far by the pass in progress
  ruc,           \* run_until_complete() is in progress
  taskDone,      \* its task is done
  taskResult,    \* the task's result, 0 when it has none
  stopCb,        \* the task's done-callbacks hold run_until_complete's stop
  nsigint,       \* history: interrupts handed to this loop for this run to handle
  nIntStop,      \* history: stop() calls of interrupt callbacks in this run
  nOtherStop,    \* history: other stop() calls in this run
  lastOp,        \* history: the API call the last step made and what it returned
  args,          \* what _callback appended to handle._args, by handle id
  childStatus,   \* history: the wait status the child watch reported, by handle id
  others,        \* the other loops made on the default context
  lastMade,      \* history: the loop made last on the default context
  otherReady,    \* interrupt callbacks queued on the other loops of the default context
  warnings,      \* history: warnings logged by DefaultSigINTHandler.attach
  polFull,       \* GLibEventLoopPolicy._full
  polDefault,    \* GLibEventLoopPolicy._default
  polDefaultLoop, \* GLibEventLoopPolicy._default_loop: 0 is None, else the loop's number
  polLoops,      \* history: the loops the policy made, in order
  polLast,       \* history: the last call of the policy and what it returned
  tpc,           \* where the other thread is in call_soon_threadsafe
  orphans,       \* live wakeup timeouts self._wakeup no longer refers to
  outer,         \* the pass suspended by a callback that iterates the context
  broken         \* the exception that escaped a callback of the foreign library

config == <<variant, ctxDefault, budget>>
tables == <<readers, writers, sighandlers, chldhandlers>>
qvars == <<ready, wakeup, wakeupLive, will_dispatch>>
runvars == <<mainloop, running, quit, interrupted>>
passvars == <<dfrom, dsrc, ntodo, snap, ran>>
taskvars == <<ruc, taskDone, taskResult, stopCb>>
counters == <<nsigint, nIntStop, nOtherStop>>
childvars == <<args, childStatus>>
sigvars == <<lastMade, others, otherReady, warnings>>
polvars == <<polFull, polDefault, polDefaultLoop, polLoops, polLast>>
thrvars == <<tpc, orphans>>
nestvars == <<outer, broken>>
loopvars == <<handles, nextId, handlers, tables, qvars, runvars, sigTarget, pc, passvars,
              cur, taskvars, counters, lastOp>>
aux == <<childvars, sigvars, polvars, thrvars, nestvars>>

vars == <<variant, ctxDefault, budget, handles, nextId, readers, writers, sighandlers,
          chldhandlers, handlers, ready, wakeup, wakeupLive, will_dispatch,
          mainloop, running, quit, interrupted, sigTarget, pc, dfrom, dsrc,
          ntodo, cur, snap, ran, ruc, taskDone, taskResult, stopCb, nsigint,
          nIntStop, nOtherStop, lastOp, args, childStatus, lastMade, others,
          otherReady, warnings,
          polFull, polDefault, polDefaultLoop, polLoops, polLast, tpc, orphans,
          outer, broken>>

\* ------------------------------------------------------------- handles
NoHandle ==
  [kind |-> "none", cb |-> "none", key |-> 0,
   cancelled |-> FALSE, rdy |-> FALSE, live |-> FALSE]

\* events.Handle(callback, args): a plain handle has no watch.
PlainHandle(cb) ==
  [kind |-> "soon", cb |-> cb, key |-> 0,
   cancelled |-> FALSE, rdy |-> FALSE, live |-> FALSE]

\* GLibHandle.__init__ / GLibChildHandle.__init__: the watch is attached.
WatchHandle(kind, key, cb) ==
  [kind |-> kind, cb |-> cb, key |-> key,
   cancelled |-> FALSE, rdy |-> FALSE, live |-> TRUE]

\* Handles none of which repeats.
RepeatNever(kind) == FALSE

\* GLibHandle._repeat as the loop passes it: False for timers only.
Repeat(kind) == kind \in {"reader", "writer", "signal"}

Allocated == 1..(nextId - 1)

NoOp ==
  [op |-> "none", key |-> 0, h |-> 0, prev |-> 0, cb |-> "none",
   ret |-> "none", again |-> FALSE, blocked |-> FALSE,
   sigints |-> 0, intStops |-> 0, otherStops |-> 0, val |-> 0]

\* History counters count 0, 1, "2 or more".
Inc2(n) == IF n >= 2 THEN 2 ELSE n + 1

Op(name) == [NoOp EXCEPT !.op = name]

\* No pass is suspended.
NoPass ==
  [dfrom |-> "none", dsrc |-> 0, ntodo |-> 0, snap |-> <<>>, ran |-> <<>>, cur |-> 0]

\* No call of the policy yet.
NoCall == [op |-> "none", main |-> FALSE, ret |-> 0, kind |-> "none"]

\* ------------------------------------------------------------- Init
\* The loop as its constructor leaves it, with room for b handles.
LoopStart(b) ==
  /\ budget = b
  /\ variant \in {"glib", "gtk"}
  /\ ctxDefault \in BOOLEAN
  /\ variant = "gtk" => ctxDefault
  /\ handles = [h \in HandleIds |-> NoHandle]
  /\ nextId = 1
  /\ readers = [k \in Fds |-> 0]
  /\ writers = [k \in Fds |-> 0]
  /\ sighandlers = [k \in Sigs |-> 0]
  /\ chldhandlers = [k \in Pids |-> 0]
  /\ handlers = {}
  /\ ready = <<>>
  /\ wakeup = FALSE
  /\ wakeupLive = 0
  /\ will_dispatch = FALSE
  /\ mainloop = 0
  /\ running = FALSE
  /\ quit = FALSE
  /\ interrupted = FALSE
  /\ sigTarget = IF ctxDefault THEN "self" ELSE "none"
  /\ pc = "idle"
  /\ dfrom = "none"
  /\ dsrc = 0
  /\ ntodo = 0
  /\ cur = 0
  /\ snap = <<>>
  /\ ran = <<>>
  /\ ruc = FALSE
  /\ taskDone = FALSE
  /\ taskResult = 0
  /\ stopCb = FALSE
  /\ nsigint = 0
  /\ nIntStop = 0
  /\ nOtherStop = 0
  /\ lastOp = NoOp
  /\ args = [h \in HandleIds |-> <<>>]
  /\ childStatus = [h \in HandleIds |-> 0]
  /\ lastMade = IF ctxDefault THEN "self" ELSE "none"
  /\ others = {}
  /\ otherReady = [o \in OtherLoops |-> 0]
  /\ warnings = 0
  /\ tpc = "out"
  /\ orphans = 0
  /\ outer = NoPass
  /\ broken = "none"

\* GLibEventLoopPolicy.__init__ with the arguments full and default.
PolicyStart(full, default) ==
  /\ polFull = full
  /\ polDefault = default
  /\ polDefaultLoop = 0
  /\ polLoops = <<>>
  /\ polLast = NoCall

\* The loop, with a policy made with its default arguments.
Start(b) == LoopStart(b) /\ PolicyStart(FALSE, TRUE)

Init == Start(MaxHandles)

InitTables == Start(MaxTableHandles)

InitLive == Start(MaxLiveHandles)

\* ------------------------------------------------------------- callers
\* The caller is outside run_forever() and outside any callback.
External == pc = "idle" /\ dfrom = "none" /\ cur = 0

\* A user callback is executing.
InUserCallback == cur # 0 /\ handles[cur].cb \in UserCallbacks

Caller == External \/ InUserCallback

\* The context is being iterated and is between two callbacks: by this loop's
\* own run, or, while the loop is idle, by foreign code.
Iterating == pc \in {"idle", "running"} /\ dfrom = "none" /\ cur = 0

\* ------------------------------------------------------------- the queue
\* A _schedule_dispatch() that armed the wakeup only for a queue of two or more.
ScheduleArmsLate(rdy, wk) == Len(rdy) > 1 /\ ~wk

\* _schedule_dispatch(): arms the wakeup timeout unless the queue rdy is empty
\* or a wakeup exists.
ScheduleArms(rdy, wk) == rdy # <<>> /\ ~wk

ScheduleDispatch(rdy) ==
  IF ScheduleArms(rdy, wakeup)
    THEN wakeup' = TRUE /\ wakeupLive' = wakeupLive + 1
    ELSE UNCHANGED <<wakeup, wakeupLive>>

\* Where call_soon puts the new handle h in the queue.
Enqueue(rdy, h) == Append(rdy, h)

\* call_soon(cb): the body, shared by every caller of it.
CallSoonDo(cb) ==
  /\ nextId <= budget
  /\ handles' = [handles EXCEPT ![nextId] = PlainHandle(cb)]
  /\ nextId' = nextId + 1
  /\ ready' = Enqueue(ready, nextId)
  /\ IF ~will_dispatch
       THEN ScheduleDispatch(ready')
       ELSE UNCHANGED <<wakeup, wakeupLive>>
  /\ UNCHANGED <<will_dispatch, handlers>>

\* A stop() that asked for the quit whether or not a run is in progress.
StopAsksAlways == TRUE

\* stop(): asks the main loop of the run in progress to quit; no run, no effect.
StopAsks == IF variant = "glib" THEN mainloop # 0 ELSE running

StopDo(byInterrupt) ==
  /\ quit' = (quit \/ StopAsks)
  /\ IF pc = "idle"
       THEN UNCHANGED <<nIntStop, nOtherStop>>
       ELSE IF byInterrupt
         THEN nIntStop' = Inc2(nIntStop) /\ UNCHANGED nOtherStop
         ELSE nOtherStop' = Inc2(nOtherStop) /\ UNCHANGED nIntStop

\* ------------------------------------------------------------- call_soon, call_later
CallSoon(cb) ==
  /\ Caller
  /\ CallSoonDo(cb)
  /\ cur' = 0
  /\ lastOp' = [Op("call_soon") EXCEPT !.h = nextId, !.cb = cb]
  /\ UNCHANGED <<config, aux, tables, runvars, sigTarget, pc, passvars, taskvars, counters>>

\* A call_later that took only a negative delay for call_soon.
IsImmediateNegative(delay) == delay < 0

\* call_later(delay, ...): delay <= 0 is call_soon.
IsImmediate(delay) == delay <= 0

CallLater(delay, cb) ==
  /\ Caller
  /\ IF IsImmediate(delay)
       THEN CallSoonDo(cb)
       ELSE /\ nextId <= budget
            /\ handles' = [handles EXCEPT ![nextId] = WatchHandle("timer", 0, cb)]
            /\ handlers' = handlers \cup {nextId}
            /\ nextId' = nextId + 1
            /\ UNCHANGED qvars
  /\ cur' = 0
  /\ lastOp' = [Op("call_later") EXCEPT !.h = nextId, !.cb = cb, !.key = delay]
  /\ UNCHANGED <<config, aux, tables, runvars, sigTarget, pc, passvars, taskvars, counters>>

\* ------------------------------------------------------------- cancel
\* events.Handle.cancel(): the base class marks the handle cancelled.
BaseCancel(hrec) == [hrec EXCEPT !.cancelled = TRUE]

\* GLibHandle.cancel(): super().cancel(); self._source.destroy()
HandleCancel(hrec) == [BaseCancel(hrec) EXCEPT !.live = FALSE]

\* GLibChildHandle.cancel(): super().cancel(); GLib.source_remove(self._source)
ChildHandleCancel(hrec) == [BaseCancel(hrec) EXCEPT !.live = FALSE]

\* h.cancel() by the class of h.
CancelRec(hrec) ==
  CASE hrec.kind = "soon" -> BaseCancel(hrec)
    [] hrec.kind = "child" -> ChildHandleCancel(hrec)
    [] OTHER -> HandleCancel(hrec)

\* A cancel() that left the handle in the loop's set.
DiscardNothing(hs, h) == hs

\* self._loop._handlers.discard(self); a plain handle is never in the set.
Discard(hs, h) == hs \ {h}

\* The handle objects the API hands to its caller: those of call_soon and
\* call_later (add_reader and the like return None).
Cancel(h) ==
  /\ Caller
  /\ h \in Allocated
  /\ handles[h].cb \in UserCallbacks
  /\ handles[h].kind \in {"soon", "timer"}
  /\ handles' = [handles EXCEPT ![h] = CancelRec(@)]
  /\ handlers' = IF handles[h].kind = "soon" THEN handlers ELSE Discard(handlers, h)
  /\ cur' = 0
  /\ lastOp' = [Op("cancel") EXCEPT !.h = h, !.again = handles[h].cancelled]
  /\ UNCHANGED <<config, aux, nextId, tables, qvars, runvars, sigTarget, pc, passvars,
                 taskvars, counters>>

\* ------------------------------------------------------------- stop, nested run_forever
Stop ==
  /\ Caller
  /\ StopDo(FALSE)
  /\ cur' = 0
  /\ lastOp' = Op("stop")
  /\ UNCHANGED <<config, aux, handles, nextId, handlers, tables, qvars, mainloop, running,
                 interrupted, sigTarget, pc, passvars, taskvars, nsigint>>

\* is_running()
IsRunning == IF variant = "glib" THEN mainloop # 0 ELSE running

\* run_forever()'s first statement: raise RuntimeError('Event loop is running.')
RunForeverRaises == IF variant = "glib" THEN mainloop # 0 ELSE running

\* A run_forever() that raised from inside its try block, whose finally clause
\* clears the main loop.
MainloopClearedByRaise(ml) == 0

\* self._mainloop / self._running after that raise: it precedes the try block.
MainloopAfterRaise(ml) == ml
RunningAfterRaise(r) == r

\* run_forever() called by a callback of a run in progress.
NestedRunForever ==
  /\ InUserCallback
  /\ pc # "idle"
  /\ RunForeverRaises
  /\ mainloop' = MainloopAfterRaise(mainloop)
  /\ running' = RunningAfterRaise(running)
  /\ cur' = 0
  /\ lastOp' = [Op("run_forever") EXCEPT !.ret = "usage_error"]
  /\ UNCHANGED <<config, aux, handles, nextId, handlers, tables, qvars, quit, interrupted,
                 sigTarget, pc, passvars, taskvars, counters>>

\* A user callback that calls nothing of the loop.
CallbackReturns ==
  /\ InUserCallback
  /\ cur' = 0
  /\ lastOp' = NoOp
  /\ UNCHANGED <<config, aux, handles, nextId, handlers, tables, qvars, runvars, sigTarget,
                 pc, passvars, taskvars, counters>>

\* ------------------------------------------------------------- registration tables
\* An add_* that did not remove the registration it replaces.
ReplacedNothing(tbl, k) == 0

\* A remove_* that reported True whether or not the key was registered.
RemoveReturnsAlways(tbl, k) == TRUE

\* add_*(key, ...) begins with self.remove_*(key): the handle it cancels, 0 for none.
Replaced(tbl, k) == tbl[k]

\* remove_*(key): `self._table.pop(key).cancel(); return True`, or False on KeyError.
RemoveReturns(tbl, k) == tbl[k] # 0
Popped(tbl, k) == [tbl EXCEPT ![k] = 0]

CancelAt(hs, h) == IF h = 0 THEN hs ELSE [hs EXCEPT ![h] = CancelRec(@)]

BoolRet(b) == IF b THEN "true" ELSE "false"

\* The shared shape of add_reader, add_writer and add_signal_handler.
AddTo(name, kind, tbl, tblNext, k, cb) ==
  /\ Caller
  /\ nextId <= budget
  /\ LET prev == Replaced(tbl, k) IN
       /\ handles' = [CancelAt(handles, prev) EXCEPT ![nextId] = WatchHandle(kind, k, cb)]
       /\ handlers' = Discard(handlers, prev) \cup {nextId}
  /\ tblNext = [tbl EXCEPT ![k] = nextId]
  /\ nextId' = nextId + 1
  /\ cur' = 0
  /\ lastOp' = [Op(name) EXCEPT !.key = k, !.h = nextId, !.prev = tbl[k], !.cb = cb,
                                !.ret = "ok",
                                !.again = (tbl[k] # 0 /\ handles[tbl[k]].cancelled)]
  /\ UNCHANGED <<config, aux, qvars, runvars, sigTarget, pc, passvars, taskvars, counters>>

\* The shared shape of remove_reader, remove_writer, remove_signal_handler and
\* _remove_child_handler.
RemoveFrom(name, tbl, tblNext, k) ==
  /\ Caller
  /\ handles' = CancelAt(handles, tbl[k])
  /\ handlers' = Discard(handlers, tbl[k])
  /\ tblNext = Popped(tbl, k)
  /\ cur' = 0
  /\ lastOp' = [Op(name) EXCEPT !.key = k, !.h = tbl[k], !.prev = tbl[k],
                                !.ret = BoolRet(RemoveReturns(tbl, k)),
                                !.again = (tbl[k] # 0 /\ handles[tbl[k]].cancelled)]
  /\ UNCHANGED <<config, aux, nextId, qvars, runvars, sigTarget, pc, passvars, taskvars,
                 counters>>

AddReader(fd, cb) ==
  /\ AddTo("add_reader", "reader", readers, readers', fd, cb)
  /\ UNCHANGED <<writers, sighandlers, chldhandlers>>

RemoveReader(fd) ==
  /\ RemoveFrom("remove_reader", readers, readers', fd)
  /\ UNCHANGED <<writers, sighandlers, chldhandlers>>

AddWriter(fd, cb) ==
  /\ AddTo("add_writer", "writer", writers, writers', fd, cb)
  /\ UNCHANGED <<readers, sighandlers, chldhandlers>>

RemoveWriter(fd) ==
  /\ RemoveFrom("remove_writer", writers, writers', fd)
  /\ UNCHANGED <<readers, sighandlers, chldhandlers>>

\* The signals of Sigs pass _check_signal and have a GLib signal source.
AddSignalHandler(sig, cb) ==
  /\ AddTo("add_signal_handler", "signal", sighandlers, sighandlers', sig, cb)
  /\ UNCHANGED <<readers, writers, chldhandlers>>

RemoveSignalHandler(sig) ==
  /\ RemoveFrom("remove_signal_handler", sighandlers, sighandlers', sig)
  /\ UNCHANGED <<readers, writers, chldhandlers>>

\* A GLibChildHandle that could be made on any context.
ChildWatchAllowedAnywhere == TRUE

\* GLibChildHandle.__init__ raises RuntimeError outside the default context.
ChildWatchAllowed == ctxDefault

\* _add_child_handler: the removal comes first, then the constructor may raise.
AddChildHandler(pid, cb) ==
  /\ Caller
  /\ LET prev == Replaced(chldhandlers, pid) IN
       IF ChildWatchAllowed
         THEN /\ nextId <= budget
              /\ handles' = [CancelAt(handles, prev) EXCEPT
                               ![nextId] = WatchHandle("child", pid, cb)]
              /\ handlers' = Discard(handlers, prev) \cup {nextId}
              /\ chldhandlers' = [chldhandlers EXCEPT ![pid] = nextId]
              /\ nextId' = nextId + 1
         ELSE /\ handles' = CancelAt(handles, prev)
              /\ handlers' = Discard(handlers, prev)
              /\ chldhandlers' = Popped(chldhandlers, pid)
              /\ UNCHANGED nextId
  /\ cur' = 0
  /\ lastOp' = [Op("add_child_handler") EXCEPT
                  !.key = pid, !.h = IF ChildWatchAllowed THEN nextId ELSE 0,
                  !.prev = chldhandlers[pid], !.cb = cb,
                  !.ret = IF ChildWatchAllowed THEN "ok" ELSE "usage_error",
                  !.again = (chldhandlers[pid] # 0 /\ handles[chldhandlers[pid]].cancelled)]
  /\ UNCHANGED <<config, aux, readers, writers, sighandlers, qvars, runvars, sigTarget, pc,
                 passvars, taskvars, counters>>

RemoveChildHandler(pid) ==
  /\ RemoveFrom("remove_child_handler", chldhandlers, chldhandlers', pid)
  /\ UNCHANGED <<readers, writers, sighandlers>>

\* ------------------------------------------------------------- close
\* `for s in list(self._handlers): s.cancel()`: the handles close() cancels.
CloseCancels(hs) == hs

\* DefaultSigINTHandler.detach(loop)
Detach(target) == IF target = "self" THEN "none" ELSE target

\* close(): the cancels, the detach, then super().close(), which is the
\* selector loop's and touches neither the queue nor the wakeup timeout of
\* this class.
Close ==
  /\ Caller
  /\ handles' = [h \in HandleIds |->
                   IF h \in CloseCancels(handlers) THEN CancelRec(handles[h])
                                                   ELSE handles[h]]
  /\ handlers' = handlers \ CloseCancels(handlers)
  /\ sigTarget' = Detach(sigTarget)
  /\ cur' = 0
  /\ lastOp' = Op("close")
  /\ UNCHANGED <<config, aux, nextId, tables, qvars, runvars, pc, passvars, taskvars,
                 counters>>

\* ------------------------------------------------------------- _dispatch
\* `self._will_dispatch = True; ntodo = len(self._ready)`, called by who.
BeginPass(rdy, who, src) ==
  /\ will_dispatch' = TRUE
  /\ ntodo' = Len(rdy)
  /\ snap' = rdy
  /\ ran' = <<>>
  /\ dfrom' = who
  /\ dsrc' = src

\* A pass that went on until the queue is empty, instead of counting ntodo.
MoreTodoUntilEmpty(n, rdy) == Len(rdy) > 0

\* `for i in range(ntodo)`: another iteration is due.
MoreTodo(n, rdy) == n > 0

\* A pass that ran every handle it pops, cancelled or not.
RunsHandleAlways(hrec) == TRUE

\* `if not handle._cancelled: handle._run()`
RunsHandle(hrec) == ~hrec.cancelled

\* One iteration: popleft, and enter the callback unless the handle is cancelled.
\* GLibHandle._run clears the handle's _ready flag first.
DispatchPop ==
  /\ dfrom # "none"
  /\ cur = 0
  /\ MoreTodo(ntodo, ready)
  /\ LET h == Head(ready) IN
       /\ ready' = Tail(ready)
       /\ ntodo' = ntodo - 1
       /\ IF RunsHandle(handles[h])
            THEN /\ cur' = h
                 /\ ran' = Append(ran, h)
                 /\ handles' = [handles EXCEPT ![h].rdy = FALSE]
            ELSE UNCHANGED <<cur, ran, handles>>
  /\ lastOp' = NoOp
  /\ UNCHANGED <<config, aux, nextId, handlers, tables, wakeup, wakeupLive, will_dispatch,
                 runvars, sigTarget, pc, dfrom, dsrc, snap, taskvars, counters>>

PassOver == dfrom # "none" /\ cur = 0 /\ ~MoreTodo(ntodo, ready)

\* The pass is left: the history of the pass is dropped.
LeavePass ==
  /\ dfrom' = "none"
  /\ dsrc' = 0
  /\ ntodo' = 0
  /\ snap' = <<>>
  /\ ran' = <<>>
  /\ will_dispatch' = FALSE

\* ------------------------------------------------------------- the watches call back
\* wakeup_cb after its _dispatch(): `if self._ready: return True`
KeepsWakeup(rdy) == rdy # <<>>

FireWakeup ==
  /\ Iterating
  /\ wakeupLive > 0
  /\ BeginPass(ready, "wakeup", 0)
  /\ lastOp' = NoOp
  /\ UNCHANGED <<config, aux, handles, nextId, handlers, tables, ready, wakeup, wakeupLive,
                 runvars, sigTarget, pc, cur, taskvars, counters>>

WakeupReturn ==
  /\ PassOver
  /\ dfrom = "wakeup"
  /\ IF KeepsWakeup(ready)
       THEN ScheduleDispatch(ready)
       ELSE wakeup' = FALSE /\ wakeupLive' = wakeupLive - 1
  /\ LeavePass
  /\ lastOp' = NoOp
  /\ UNCHANGED <<config, aux, handles, nextId, handlers, tables, ready, runvars, sigTarget,
                 pc, cur, taskvars, counters>>

\* A watch callback that put its handle at the head of the queue.
ReadiedFirst(rdy, h) == <<h>> \o rdy

\* `self._loop._ready.append(self)` of a watch callback.
Readied(rdy, h) == Append(rdy, h)

\* GLibHandle._callback: a timer, fd or signal watch of handle h calls back.
FireHandle(h) ==
  /\ Iterating
  /\ h \in Allocated
  /\ handles[h].live
  /\ handles[h].kind \in {"timer", "reader", "writer", "signal"}
  /\ IF ~handles[h].rdy
       THEN /\ handles' = [handles EXCEPT ![h].rdy = TRUE]
            /\ ready' = Readied(ready, h)
       ELSE UNCHANGED <<handles, ready>>
  /\ BeginPass(ready', "source", h)
  /\ lastOp' = NoOp
  /\ UNCHANGED <<config, aux, nextId, handlers, tables, wakeup, wakeupLive, runvars,
                 sigTarget, pc, cur, taskvars, counters>>

\* ... and returns self._repeat; GLib destroys a watch whose callback returns
\* False.  The history keeps rec of it.
HandleCallbackReturnDo(rec) ==
  /\ PassOver
  /\ dfrom = "source"
  /\ ScheduleDispatch(ready)
  /\ IF Repeat(handles[dsrc].kind)
       THEN UNCHANGED <<handles, handlers>>
       ELSE /\ handlers' = Discard(handlers, dsrc)
            /\ handles' = [handles EXCEPT ![dsrc].live = FALSE]
  /\ LeavePass
  /\ lastOp' = rec
  /\ UNCHANGED <<config, aux, nextId, tables, ready, runvars, sigTarget, pc, cur, taskvars,
                 counters>>

HandleCallbackReturn == HandleCallbackReturnDo(NoOp)

\* The same, with the value returned to GLib kept in the history.
HandleCallbackReturnsValue ==
  HandleCallbackReturnDo([Op("_callback") EXCEPT
                            !.h = dsrc,
                            !.ret = IF Repeat(handles[dsrc].kind) THEN "keep" ELSE "stop"])

\* os.WIFSIGNALED, os.WTERMSIG, os.WIFEXITED, os.WEXITSTATUS
WIFSIGNALED(st) == (st % 128) # 0 /\ (st % 128) # 127
WTERMSIG(st) == st % 128
WIFEXITED(st) == (st % 128) = 0
WEXITSTATUS(st) == (st \div 256) % 256

\* An adjustment that took 128 off the exit status.
AdjustStatusDown(rc) == IF rc > 128 THEN rc - 128 ELSE rc

\* `if returncode > 128: returncode = 128 - returncode`
AdjustStatus(rc) == IF rc > 128 THEN 128 - rc ELSE rc

\* The return code _callback computes from the status; none is Python's None.
ReturnCode(st) ==
  IF WIFSIGNALED(st) THEN [none |-> FALSE, code |-> 0 - WTERMSIG(st)]
  ELSE IF WIFEXITED(st) THEN [none |-> FALSE, code |-> AdjustStatus(WEXITSTATUS(st))]
  ELSE [none |-> TRUE, code |-> 0]

\* GLibChildHandle._callback: the child watch of handle h calls back with the
\* status st; `self._args += returncode,` then the handle is queued.
FireChild(h, st) ==
  /\ Iterating
  /\ h \in Allocated
  /\ handles[h].live
  /\ handles[h].kind = "child"
  /\ args' = [args EXCEPT ![h] = Append(@, ReturnCode(st))]
  /\ childStatus' = [childStatus EXCEPT ![h] = st]
  /\ ready' = Readied(ready, h)
  /\ BeginPass(ready', "child", h)
  /\ lastOp' = NoOp
  /\ UNCHANGED <<config, sigvars, polvars, thrvars, nestvars, handles, nextId, handlers, tables, wakeup, wakeupLive, runvars,
                 sigTarget, pc, cur, taskvars, counters>>

\* ... and returns None: GLib removes a child watch once it has called back.
ChildCallbackReturn ==
  /\ PassOver
  /\ dfrom = "child"
  /\ ScheduleDispatch(ready)
  /\ handles' = [handles EXCEPT ![dsrc].live = FALSE]
  /\ LeavePass
  /\ lastOp' = NoOp
  /\ UNCHANGED <<config, aux, nextId, handlers, tables, ready, runvars, sigTarget, pc, cur,
                 taskvars, counters>>

\* DefaultSigINTHandler._callback: SIGINT arrives and this loop is the one attached;
\* call_soon_threadsafe(interrupt, l) is call_soon from the context's thread.
FireSigint ==
  /\ Iterating
  /\ sigTarget = "self"
  /\ CallSoonDo("interrupt")
  /\ nsigint' = IF pc = "running" THEN Inc2(nsigint) ELSE nsigint
  /\ lastOp' = NoOp
  /\ UNCHANGED <<config, aux, tables, runvars, sigTarget, pc, passvars, cur, taskvars,
                 nIntStop, nOtherStop>>

\* An attach that kept the loop attached first.
AttachKeepsFirst(target, loop) == IF target = "none" THEN loop ELSE target

\* DefaultSigINTHandler.attach(loop): the warning, and the loop referred to after.
AttachWarns(target, loop) == target # "none" /\ target # loop
AttachTarget(target, loop) == loop

\* Another loop o is made on the default context: its constructor attaches it.
MakeOtherLoop(o) ==
  /\ Caller
  /\ o \in OtherLoops \ others
  /\ others' = others \cup {o}
  /\ lastMade' = o
  /\ warnings' = IF AttachWarns(sigTarget, o) THEN Inc2(warnings) ELSE warnings
  /\ sigTarget' = AttachTarget(sigTarget, o)
  /\ cur' = 0
  /\ lastOp' = [Op("new_loop") EXCEPT !.ret = "ok"]
  /\ UNCHANGED <<config, childvars, polvars, thrvars, nestvars, otherReady, handles,
                 nextId, handlers, tables, qvars, runvars, pc, passvars, taskvars,
                 counters>>

\* DefaultSigINTHandler._callback while another loop is the one attached: the
\* interrupt callback is queued on that loop.  The default context is iterated
\* by this loop's thread when this loop is on it.
FireSigintOther ==
  /\ ctxDefault => Iterating
  /\ sigTarget \in OtherLoops
  /\ otherReady' = [otherReady EXCEPT ![sigTarget] = Inc2(@)]
  /\ lastOp' = NoOp
  /\ UNCHANGED <<config, childvars, polvars, thrvars, nestvars, lastMade, others,
                 warnings, handles, nextId, handlers, tables, qvars, runvars,
                 sigTarget, pc, passvars, cur, taskvars, counters>>

\* interrupt(loop): `loop._interrupted = True; loop.stop()`
InterruptCallback ==
  /\ cur # 0
  /\ handles[cur].cb = "interrupt"
  /\ interrupted' = TRUE
  /\ StopDo(TRUE)
  /\ cur' = 0
  /\ lastOp' = NoOp
  /\ UNCHANGED <<config, aux, handles, nextId, handlers, tables, qvars, mainloop, running,
                 sigTarget, pc, passvars, taskvars, nsigint>>

\* ------------------------------------------------------------- run_forever
\* History: the interrupt callbacks queued when a run begins, counted 0, 1, 2.
Pending(rdy) ==
  LET n == Cardinality({i \in 1..Len(rdy) : handles[rdy[i]].cb = "interrupt"})
  IN IF n >= 2 THEN 2 ELSE n

\* run_forever() is entered by the idle caller or by run_until_complete().
RunCaller == External \/ (pc = "ruc_call" /\ dfrom = "none" /\ cur = 0)

\* GLibEventLoop.run_forever: a new MainLoop (running), then the first _dispatch().
RunForeverGLib ==
  /\ RunCaller
  /\ variant = "glib"
  /\ ~RunForeverRaises
  /\ mainloop' = 1
  /\ quit' = FALSE
  /\ BeginPass(ready, "init", 0)
  /\ pc' = "rf_init"
  /\ nsigint' = Pending(ready) /\ nIntStop' = 0 /\ nOtherStop' = 0
  /\ lastOp' = NoOp
  /\ UNCHANGED <<config, aux, handles, nextId, handlers, tables, ready, wakeup, wakeupLive,
                 running, interrupted, sigTarget, cur, taskvars>>

\* The first pass of run_forever() is over.
InitDispatchEnd ==
  /\ PassOver
  /\ dfrom = "init"
  /\ ScheduleDispatch(ready)
  /\ LeavePass
  /\ pc' = "rf_check"
  /\ lastOp' = NoOp
  /\ UNCHANGED <<config, aux, handles, nextId, handlers, tables, ready, runvars, sigTarget,
                 cur, taskvars, counters>>

\* A run_forever() that entered the blocking run without looking at is_running().
EntersRunAlways(q) == TRUE

\* `if l.is_running(): l.run()`: q is whether the main loop was asked to quit.
EntersRun(q) == ~q

\* MainLoop.run() marks the main loop running again, whatever it was.
EnterRun ==
  /\ pc = "rf_check"
  /\ EntersRun(quit)
  /\ pc' = "running"
  /\ quit' = FALSE
  /\ lastOp' = NoOp
  /\ UNCHANGED <<config, aux, handles, nextId, handlers, tables, qvars, mainloop, running,
                 interrupted, sigTarget, passvars, cur, taskvars, counters>>

\* GtkEventLoop.run_forever: _schedule_dispatch(), _running = True, Gtk.main().
RunForeverGtk ==
  /\ RunCaller
  /\ variant = "gtk"
  /\ ~RunForeverRaises
  /\ ScheduleDispatch(ready)
  /\ running' = TRUE
  /\ quit' = FALSE
  /\ pc' = "running"
  /\ nsigint' = Pending(ready) /\ nIntStop' = 0 /\ nOtherStop' = 0
  /\ lastOp' = NoOp
  /\ UNCHANGED <<config, aux, handles, nextId, handlers, tables, ready, will_dispatch,
                 mainloop, interrupted, sigTarget, passvars, cur, taskvars>>

\* A run_forever() that returned normally after an interrupt.
RaisesInterruptNever(intr) == FALSE

\* `if self._interrupted: self._interrupted = False; raise KeyboardInterrupt()`
RaisesInterrupt(intr) == intr

\* The end of run_forever(): the interrupted check, then the finally clause.
ExitRun(blocked) ==
  /\ interrupted' = IF RaisesInterrupt(interrupted) THEN FALSE ELSE interrupted
  /\ mainloop' = 0
  /\ running' = FALSE
  /\ quit' = FALSE
  /\ pc' = IF ruc THEN (IF RaisesInterrupt(interrupted) THEN "ruc_exc" ELSE "ruc_ok")
                  ELSE "idle"
  /\ lastOp' = [Op("run_forever") EXCEPT
                  !.ret = IF RaisesInterrupt(interrupted) THEN "interrupted" ELSE "returned",
                  !.blocked = blocked, !.sigints = nsigint, !.intStops = nIntStop,
                  !.otherStops = nOtherStop]
  /\ nsigint' = 0 /\ nIntStop' = 0 /\ nOtherStop' = 0
  /\ UNCHANGED <<config, aux, handles, nextId, handlers, tables, qvars, sigTarget, passvars,
                 cur, taskvars>>

\* stop() came during the first pass: MainLoop.run() is not called.
SkipRun ==
  /\ pc = "rf_check"
  /\ ~EntersRun(quit)
  /\ ExitRun(FALSE)

\* MainLoop.run() / Gtk.main() returns once the main loop was asked to quit.
RunReturns ==
  /\ pc = "running"
  /\ dfrom = "none"
  /\ cur = 0
  /\ quit
  /\ ExitRun(TRUE)

\* ------------------------------------------------------------- run_until_complete
\* No step of an earlier task is still queued.
NoTaskPending == \A i \in 1..Len(ready) : handles[ready[i]].cb # "step"

\* run_until_complete(coroutine): tasks.async makes a Task, whose first step is
\* scheduled with call_soon; add_done_callback(stop) on a pending future.
RunUntilCompleteTask ==
  /\ External
  /\ NoTaskPending
  /\ CallSoonDo("step")
  /\ ruc' = TRUE
  /\ taskDone' = FALSE
  /\ taskResult' = 0
  /\ stopCb' = TRUE
  /\ pc' = "ruc_call"
  /\ cur' = 0
  /\ lastOp' = NoOp
  /\ UNCHANGED <<config, aux, tables, runvars, sigTarget, passvars, counters>>

\* run_until_complete(future) on a future that is done with result r:
\* add_done_callback(stop) schedules stop with call_soon at once.
RunUntilCompleteDone(r) ==
  /\ External
  /\ NoTaskPending
  /\ CallSoonDo("stopcb")
  /\ ruc' = TRUE
  /\ taskDone' = TRUE
  /\ taskResult' = r
  /\ stopCb' = FALSE
  /\ pc' = "ruc_call"
  /\ cur' = 0
  /\ lastOp' = NoOp
  /\ UNCHANGED <<config, aux, tables, runvars, sigTarget, passvars, counters>>

\* The task's step sets the result r: the done-callbacks are scheduled with
\* call_soon and the list is emptied.
TaskStepCompletes(r) ==
  /\ cur # 0
  /\ handles[cur].cb = "step"
  /\ ~taskDone
  /\ taskDone' = TRUE
  /\ taskResult' = r
  /\ IF stopCb
       THEN CallSoonDo("stopcb")
       ELSE UNCHANGED <<handles, nextId, handlers, qvars>>
  /\ stopCb' = FALSE
  /\ cur' = 0
  /\ lastOp' = NoOp
  /\ UNCHANGED <<config, aux, tables, runvars, sigTarget, pc, passvars, ruc, counters>>

\* The task's step ends waiting for something that does not come.
TaskStepSuspends ==
  /\ cur # 0
  /\ handles[cur].cb = "step"
  /\ cur' = 0
  /\ lastOp' = NoOp
  /\ UNCHANGED <<config, aux, handles, nextId, handlers, tables, qvars, runvars, sigTarget,
                 pc, passvars, taskvars, counters>>

\* stop(f), the done-callback of run_until_complete: self.stop()
StopCallback ==
  /\ cur # 0
  /\ handles[cur].cb = "stopcb"
  /\ StopDo(FALSE)
  /\ cur' = 0
  /\ lastOp' = NoOp
  /\ UNCHANGED <<config, aux, handles, nextId, handlers, tables, qvars, mainloop, running,
                 interrupted, sigTarget, pc, passvars, taskvars, nsigint>>

\* A run_until_complete that removed its done-callback on normal return only.
DoneCallbackKeptOnRaise(installed, raised) == raised /\ installed

\* `finally: future.remove_done_callback(stop)`: whether stop is still installed.
DoneCallbackAfter(installed, raised) == FALSE

\* What run_until_complete does after run_forever() returned or raised.
RucResult(raised, done) ==
  IF raised THEN "interrupted" ELSE IF ~done THEN "incomplete" ELSE "result"

RunUntilCompleteReturns ==
  /\ pc \in {"ruc_ok", "ruc_exc"}
  /\ stopCb' = DoneCallbackAfter(stopCb, pc = "ruc_exc")
  /\ ruc' = FALSE
  /\ pc' = "idle"
  /\ lastOp' = [Op("run_until_complete") EXCEPT
                  !.ret = RucResult(pc = "ruc_exc", taskDone),
                  !.val = IF RucResult(pc = "ruc_exc", taskDone) = "result"
                            THEN taskResult ELSE 0]
  /\ UNCHANGED <<config, aux, handles, nextId, handlers, tables, qvars, runvars, sigTarget,
                 passvars, cur, taskDone, taskResult, counters>>

\* ------------------------------------------------------------- the specifications
\* The steps of a dispatch pass and of the wakeup timeout.
PassSteps ==
  \/ DispatchPop
  \/ FireWakeup
  \/ WakeupReturn
  \/ CallbackReturns

\* run_forever() of either variant, and stop().
RunSteps ==
  \/ RunForeverGLib
  \/ InitDispatchEnd
  \/ EnterRun
  \/ RunForeverGtk
  \/ SkipRun
  \/ RunReturns
  \/ Stop

\* call_soon, call_later, cancel and the timers.
QueueSteps ==
  \/ \E cb \in SoonCallbacks : CallSoon(cb)
  \/ \E d \in Delays, cb \in SoonCallbacks : CallLater(d, cb)
  \/ \E h \in HandleIds : Cancel(h)
  \/ \E h \in HandleIds : FireHandle(h)
  \/ HandleCallbackReturn

\* The registration tables, their watches, and close().
TableSteps ==
  \/ \E fd \in Fds, cb \in UserCallbacks : AddReader(fd, cb)
  \/ \E fd \in Fds : RemoveReader(fd)
  \/ \E fd \in Fds, cb \in UserCallbacks : AddWriter(fd, cb)
  \/ \E fd \in Fds : RemoveWriter(fd)
  \/ \E sig \in Sigs, cb \in UserCallbacks : AddSignalHandler(sig, cb)
  \/ \E sig \in Sigs : RemoveSignalHandler(sig)
  \/ \E pid \in Pids, cb \in UserCallbacks : AddChildHandler(pid, cb)
  \/ \E pid \in Pids : RemoveChildHandler(pid)
  \/ \E h \in HandleIds, st \in PlainStatuses : FireChild(h, st)
  \/ ChildCallbackReturn
  \/ Close

\* SIGINT, run_forever() from a callback, and run_until_complete().
LifecycleSteps ==
  \/ NestedRunForever
  \/ FireSigint
  \/ InterruptCallback
  \/ RunUntilCompleteTask
  \/ \E r \in Results : RunUntilCompleteDone(r)
  \/ \E r \in Results : TaskStepCompletes(r)
  \/ TaskStepSuspends
  \/ StopCallback
  \/ RunUntilCompleteReturns

\* The loop used for scheduling and for its life cycle: no registration table.
Next == PassSteps \/ RunSteps \/ QueueSteps \/ LifecycleSteps

Spec == Init /\ [][Next]_vars

\* The loop used for its registration tables: no signal, no run_until_complete.
NextTables == PassSteps \/ RunSteps \/ QueueSteps \/ TableSteps

SpecTables == InitTables /\ [][NextTables]_vars

\* The loop under the scheduling its code and the foreign library give it: a
\* context that keeps being iterated fires the wakeup timeout, a pass goes on,
\* callbacks and the run primitive return, and run_until_complete() goes on to
\* call run_forever().
Fairness ==
  /\ WF_vars(FireWakeup)
  /\ WF_vars(DispatchPop)
  /\ WF_vars(WakeupReturn)
  /\ WF_vars(HandleCallbackReturn)
  /\ WF_vars(InitDispatchEnd)
  /\ WF_vars(CallbackReturns)
  /\ WF_vars(InterruptCallback)
  /\ WF_vars(StopCallback)
  /\ WF_vars(TaskStepSuspends)
  /\ WF_vars(EnterRun)
  /\ WF_vars(SkipRun)
  /\ WF_vars(RunReturns)
  /\ WF_vars(RunUntilCompleteReturns)
  /\ WF_vars(pc = "ruc_call" /\ (RunForeverGLib \/ RunForeverGtk))

SpecLive == InitLive /\ [][Next]_vars /\ Fairness

\* The loop of the default context used for its child watches, every status.
InitChild == InitTables /\ ctxDefault

NextChild ==
  \/ \E pid \in Pids, cb \in UserCallbacks : AddChildHandler(pid, cb)
  \/ \E pid \in Pids : RemoveChildHandler(pid)
  \/ \E h \in HandleIds, st \in Statuses : FireChild(h, st)
  \/ DispatchPop
  \/ CallbackReturns
  \/ ChildCallbackReturn

SpecChild == InitChild /\ [][NextChild]_vars

\* ------------------------------------------------------------- the watches
\* The loop used for its watches: timers, a reader, a signal handler, a child
\* handler, and what their callbacks return to GLib.
InitWatch == InitTables

NextWatch ==
  \/ \E d \in Delays, cb \in SoonCallbacks : CallLater(d, cb)
  \/ \E fd \in Fds, cb \in SoonCallbacks : AddReader(fd, cb)
  \/ \E fd \in Fds : RemoveReader(fd)
  \/ \E sig \in Sigs, cb \in SoonCallbacks : AddSignalHandler(sig, cb)
  \/ \E sig \in Sigs : RemoveSignalHandler(sig)
  \/ \E pid \in Pids, cb \in SoonCallbacks : AddChildHandler(pid, cb)
  \/ \E h \in HandleIds : FireHandle(h)
  \/ \E h \in HandleIds, st \in PlainStatuses : FireChild(h, st)
  \/ FireWakeup
  \/ DispatchPop
  \/ CallbackReturns
  \/ WakeupReturn
  \/ HandleCallbackReturnsValue
  \/ ChildCallbackReturn

SpecWatch == InitWatch /\ [][NextWatch]_vars

\* ------------------------------------------------------------- another thread
\* Another thread is in call_soon_threadsafe(), which the loop inherits and
\* which calls self.call_soon() in the calling thread; the statements of
\* call_soon and of _schedule_dispatch interleave with the loop's thread.
\* `h = events.Handle(callback, args); self._ready.append(h)`
ThreadAppend(cb) ==
  /\ tpc = "out"
  /\ nextId <= budget
  /\ handles' = [handles EXCEPT ![nextId] = PlainHandle(cb)]
  /\ nextId' = nextId + 1
  /\ ready' = Enqueue(ready, nextId)
  /\ tpc' = "test"
  /\ UNCHANGED <<config, childvars, sigvars, polvars, nestvars, orphans, handlers, tables,
                 wakeup, wakeupLive, will_dispatch, runvars, sigTarget, pc, passvars, cur,
                 taskvars, counters, lastOp>>

\* `if not self._will_dispatch:`
ThreadTest ==
  /\ tpc = "test"
  /\ tpc' = IF ~will_dispatch THEN "guard" ELSE "out"
  /\ UNCHANGED <<config, childvars, sigvars, polvars, nestvars, orphans, loopvars>>

\* _schedule_dispatch: `if not self._ready or self._wakeup is not None: return`
ThreadGuard ==
  /\ tpc = "guard"
  /\ tpc' = IF ScheduleArms(ready, wakeup) THEN "arm" ELSE "out"
  /\ UNCHANGED <<config, childvars, sigvars, polvars, nestvars, orphans, loopvars>>

\* `self._wakeup = GLib.Timeout(0); self._wakeup.attach(self._context)`: the
\* timeout self._wakeup referred to, if any, stays attached. When that one is
\* in its callback, the pass in progress is the pass of an orphan from now on.
ThreadArm ==
  /\ tpc = "arm"
  /\ tpc' = "out"
  /\ wakeup' = TRUE
  /\ wakeupLive' = wakeupLive + 1
  /\ orphans' = IF wakeup THEN orphans + 1 ELSE orphans
  /\ dfrom' = IF wakeup /\ dfrom = "wakeup" THEN "orphan" ELSE dfrom
  /\ UNCHANGED <<config, childvars, sigvars, polvars, nestvars, handles, nextId, handlers,
                 tables, ready, will_dispatch, runvars, sigTarget, pc, dsrc, ntodo, snap, ran,
                 cur, taskvars, counters, lastOp>>

\* The timeout self._wakeup refers to calls back.
FireOwnWakeup == wakeup /\ FireWakeup

\* A timeout self._wakeup no longer refers to calls back.
FireOrphanWakeup ==
  /\ Iterating
  /\ orphans > 0
  /\ BeginPass(ready, "orphan", 0)
  /\ lastOp' = NoOp
  /\ UNCHANGED <<config, aux, handles, nextId, handlers, tables, ready, wakeup, wakeupLive,
                 runvars, sigTarget, pc, cur, taskvars, counters>>

\* wakeup_cb after its _dispatch(), whose last statements are
\* _schedule_dispatch() and the reset of _will_dispatch. With `self._ready`
\* empty it destroys the timeout self._wakeup refers to, which is not the one
\* calling back when that is an orphan, and returns False, which makes GLib
\* destroy the one calling back; with self._wakeup None the destroy raises
\* AttributeError, and whether the binding then keeps the timeout is open.
ThreadedWakeupReturn ==
  /\ PassOver
  /\ dfrom \in {"wakeup", "orphan"}
  /\ IF KeepsWakeup(ready)
       THEN /\ ScheduleDispatch(ready)
            /\ UNCHANGED <<orphans, broken>>
       ELSE IF wakeup
         THEN /\ wakeup' = FALSE
              /\ wakeupLive' = IF dfrom = "orphan" THEN wakeupLive - 2 ELSE wakeupLive - 1
              /\ orphans' = IF dfrom = "orphan" THEN orphans - 1 ELSE orphans
              /\ UNCHANGED broken
         ELSE /\ broken' = "AttributeError"
              /\ \E kept \in BOOLEAN :
                   IF kept
                     THEN UNCHANGED <<wakeupLive, orphans>>
                     ELSE wakeupLive' = wakeupLive - 1 /\ orphans' = orphans - 1
              /\ UNCHANGED wakeup
  /\ LeavePass
  /\ lastOp' = NoOp
  /\ UNCHANGED <<config, childvars, sigvars, polvars, tpc, outer, handles, nextId, handlers,
                 tables, ready, runvars, sigTarget, pc, cur, taskvars, counters>>

InitThreads == Init

NextThreads ==
  \/ \E cb \in SoonCallbacks : CallSoon(cb)
  \/ \E cb \in SoonCallbacks : ThreadAppend(cb)
  \/ ThreadTest
  \/ ThreadGuard
  \/ ThreadArm
  \/ FireOwnWakeup
  \/ FireOrphanWakeup
  \/ DispatchPop
  \/ CallbackReturns
  \/ ThreadedWakeupReturn

SpecThreads == InitThreads /\ [][NextThreads]_vars

\* ------------------------------------------------------------- recursive iteration
\* The callback in progress iterates the context (a modal dialog, a call of
\* MainContext.iteration): watches other than the one being dispatched, which
\* GLib blocks, call back inside it. One level of recursion is modelled.
SuspendPass ==
  outer' = [dfrom |-> dfrom, dsrc |-> dsrc, ntodo |-> ntodo, snap |-> snap, ran |-> ran,
            cur |-> cur]

\* The inner _dispatch() returned to the watch callback, and that to the
\* callback that iterates: the variables of the outer pass are its again.
ResumePass ==
  /\ dfrom' = outer.dfrom
  /\ dsrc' = outer.dsrc
  /\ ntodo' = outer.ntodo
  /\ snap' = outer.snap
  /\ ran' = outer.ran
  /\ cur' = outer.cur
  /\ outer' = NoPass

\* GLibHandle._callback of handle h, inside a callback that iterates.
NestedFireHandle(h) ==
  /\ InUserCallback
  /\ outer = NoPass
  /\ h \in Allocated
  /\ handles[h].live
  /\ handles[h].kind \in {"timer", "reader", "writer", "signal"}
  /\ ~(dfrom = "source" /\ dsrc = h)
  /\ SuspendPass
  /\ IF ~handles[h].rdy
       THEN /\ handles' = [handles EXCEPT ![h].rdy = TRUE]
            /\ ready' = Readied(ready, h)
       ELSE UNCHANGED <<handles, ready>>
  /\ BeginPass(ready', "source", h)
  /\ cur' = 0
  /\ lastOp' = NoOp
  /\ UNCHANGED <<config, childvars, sigvars, polvars, thrvars, broken, nextId, handlers,
                 tables, wakeup, wakeupLive, runvars, sigTarget, pc, taskvars, counters>>

\* wakeup_cb, inside a callback that iterates.
NestedFireWakeup ==
  /\ InUserCallback
  /\ outer = NoPass
  /\ wakeupLive > 0
  /\ dfrom # "wakeup"
  /\ SuspendPass
  /\ BeginPass(ready, "wakeup", 0)
  /\ cur' = 0
  /\ lastOp' = NoOp
  /\ UNCHANGED <<config, childvars, sigvars, polvars, thrvars, broken, handles, nextId,
                 handlers, tables, ready, wakeup, wakeupLive, runvars, sigTarget, pc, taskvars,
                 counters>>

\* The inner pass ends as any pass does: _schedule_dispatch() and
\* `self._will_dispatch = False`; then GLibHandle._callback returns _repeat.
NestedHandleReturn ==
  /\ PassOver
  /\ outer # NoPass
  /\ dfrom = "source"
  /\ ScheduleDispatch(ready)
  /\ IF Repeat(handles[dsrc].kind)
       THEN UNCHANGED <<handles, handlers>>
       ELSE /\ handlers' = Discard(handlers, dsrc)
            /\ handles' = [handles EXCEPT ![dsrc].live = FALSE]
  /\ will_dispatch' = FALSE
  /\ ResumePass
  /\ lastOp' = NoOp
  /\ UNCHANGED <<config, childvars, sigvars, polvars, thrvars, broken, nextId, tables, ready,
                 runvars, sigTarget, pc, taskvars, counters>>

\* ... then wakeup_cb keeps or destroys the wakeup.
NestedWakeupReturn ==
  /\ PassOver
  /\ outer # NoPass
  /\ dfrom = "wakeup"
  /\ IF KeepsWakeup(ready)
       THEN ScheduleDispatch(ready)
       ELSE wakeup' = FALSE /\ wakeupLive' = wakeupLive - 1
  /\ will_dispatch' = FALSE
  /\ ResumePass
  /\ lastOp' = NoOp
  /\ UNCHANGED <<config, childvars, sigvars, polvars, thrvars, broken, handles, nextId,
                 handlers, tables, ready, runvars, sigTarget, pc, taskvars, counters>>

\* `handle = self._ready.popleft()` with the queue empty: IndexError leaves
\* _dispatch() before _schedule_dispatch() and the reset of _will_dispatch, and
\* leaves the watch callback; whether the binding keeps the watch is open.
PopEmpty ==
  /\ dfrom # "none"
  /\ cur = 0
  /\ outer = NoPass
  /\ MoreTodo(ntodo, ready)
  /\ ready = <<>>
  /\ broken' = "IndexError"
  /\ \E kept \in BOOLEAN :
       IF kept \/ dfrom = "init"
         THEN UNCHANGED <<handles, wakeupLive>>
         ELSE IF dfrom = "source"
           THEN handles' = [handles EXCEPT ![dsrc].live = FALSE] /\ UNCHANGED wakeupLive
           ELSE wakeupLive' = wakeupLive - 1 /\ UNCHANGED handles
  /\ dfrom' = "none"
  /\ dsrc' = 0
  /\ ntodo' = 0
  /\ snap' = <<>>
  /\ ran' = <<>>
  /\ lastOp' = NoOp
  /\ UNCHANGED <<config, childvars, sigvars, polvars, thrvars, outer, nextId, handlers, tables,
                 ready, wakeup, will_dispatch, runvars, sigTarget, pc, cur, taskvars, counters>>

InitNested == Init

NextNested ==
  \/ \E d \in Delays, cb \in SoonCallbacks : CallLater(d, cb)
  \/ FireWakeup
  \/ \E h \in HandleIds : FireHandle(h)
  \/ \E h \in HandleIds : NestedFireHandle(h)
  \/ NestedFireWakeup
  \/ ready # <<>> /\ DispatchPop
  \/ PopEmpty
  \/ CallbackReturns
  \/ outer = NoPass /\ WakeupReturn
  \/ outer = NoPass /\ HandleCallbackReturn
  \/ NestedHandleReturn
  \/ NestedWakeupReturn

SpecNested == InitNested /\ [][NextNested]_vars

\* ------------------------------------------------------------- the policy
\* _new_default_loop(): GLibEventLoop(GLib.main_context_default()) or, for
\* GtkEventLoopPolicy, GtkEventLoop().
DefaultLoopRec == [kind |-> variant, ctx |-> "default"]

\* A get_default_loop() that made a loop at every call.
NeedsDefaultLoopAlways(dl) == TRUE

\* get_default_loop: `if not self._default_loop`, `if not self._default: raise`
NeedsDefaultLoop(dl) == dl = 0
DefaultLoopRaises == NeedsDefaultLoop(polDefaultLoop) /\ ~polDefault

\* The body of get_default_loop(), called by op from the main thread or not.
GetDefaultLoopDo(op, main) ==
  /\ IF DefaultLoopRaises
       THEN /\ polLast' = [op |-> op, main |-> main, ret |-> 0, kind |-> "usage_error"]
            /\ UNCHANGED <<polLoops, polDefaultLoop>>
       ELSE IF NeedsDefaultLoop(polDefaultLoop)
         THEN /\ Len(polLoops) < MaxPolicyLoops
              /\ polLoops' = Append(polLoops, DefaultLoopRec)
              /\ polDefaultLoop' = Len(polLoops) + 1
              /\ polLast' = [op |-> op, main |-> main, ret |-> Len(polLoops) + 1,
                             kind |-> DefaultLoopRec.kind]
         ELSE /\ polLast' = [op |-> op, main |-> main, ret |-> polDefaultLoop,
                             kind |-> polLoops[polDefaultLoop].kind]
              /\ UNCHANGED <<polLoops, polDefaultLoop>>
  /\ UNCHANGED <<config, loopvars, childvars, sigvars, thrvars, nestvars, polFull,
                 polDefault>>

GetDefaultLoop(main) == GetDefaultLoopDo("get_default_loop", main)

\* new_event_loop: `if self._default and isinstance(current_thread(), _MainThread)`
WantsDefaultLoop(main) == polDefault /\ main

\* ... `elif self._full: GLibEventLoop()`, else the loop of the standard policy.
ThreadLoopRec ==
  IF polFull THEN [kind |-> "glib", ctx |-> "own"] ELSE [kind |-> "plain", ctx |-> "none"]

NewEventLoop(main) ==
  IF WantsDefaultLoop(main)
    THEN GetDefaultLoopDo("new_event_loop", main)
    ELSE /\ Len(polLoops) < MaxPolicyLoops
         /\ polLoops' = Append(polLoops, ThreadLoopRec)
         /\ polLast' = [op |-> "new_event_loop", main |-> main,
                        ret |-> Len(polLoops) + 1, kind |-> ThreadLoopRec.kind]
         /\ UNCHANGED <<config, loopvars, childvars, sigvars, thrvars, nestvars, polFull,
                        polDefault, polDefaultLoop>>

\* A policy of either class with any arguments; GtkEventLoopPolicy passes
\* default=True.
InitPolicy ==
  /\ LoopStart(0)
  /\ ctxDefault
  /\ \E full \in BOOLEAN, default \in BOOLEAN :
       /\ variant = "gtk" => default
       /\ PolicyStart(full, default)

NextPolicy ==
  \/ \E main \in BOOLEAN : GetDefaultLoop(main)
  \/ \E main \in BOOLEAN : NewEventLoop(main)

SpecPolicy == InitPolicy /\ [][NextPolicy]_vars

\* The loop among the other loops of the default context, and SIGINT.
InitLoops == Init

NextLoops ==
  \/ DispatchPop
  \/ FireWakeup
  \/ WakeupReturn
  \/ RunSteps
  \/ FireSigint
  \/ InterruptCallback
  \/ \E o \in OtherLoops : MakeOtherLoop(o)
  \/ FireSigintOther

SpecLoops == InitLoops /\ [][NextLoops]_vars

\* ------------------------------------------------------------- the claims

InSeq(seq, x) == \E i \in 1..Len(seq) : seq[i] = x

Pos(seq, x) == CHOOSE i \in 1..Len(seq) : seq[i] = x

\* The handles the pass in progress has popped so far.
PoppedSoFar == {j \in 1..Len(snap) : j <= Len(snap) - ntodo}

\* C1: a dispatch pass runs the handles that were queued when it started, and
\* only those, in the order of the queue, skipping none but the cancelled ones;
\* the handles of call_soon are queued in the order of the calls; and a handle
\* queued during the pass stays behind the rest of the queue, to be run by a
\* later pass.
C1_PassRunsSnapshotInOrder ==
  dfrom # "none" =>
    /\ \A i \in 1..Len(ran) : \E j \in PoppedSoFar : snap[j] = ran[i]
    /\ \A i, j \in 1..Len(ran) : i < j => Pos(snap, ran[i]) < Pos(snap, ran[j])
    /\ \A j \in PoppedSoFar : InSeq(ran, snap[j]) \/ handles[snap[j]].cancelled
    /\ \A i, j \in 1..Len(snap) :
         (i < j /\ handles[snap[i]].kind = "soon" /\ handles[snap[j]].kind = "soon")
           => snap[i] < snap[j]
    /\ ntodo >= 0 /\ ntodo <= Len(ready)
    /\ \A i \in 1..Len(ready) :
         IF i <= ntodo THEN ready[i] = snap[Len(snap) - ntodo + i]
                       ELSE ~InSeq(snap, ready[i]) /\ ~InSeq(ran, ready[i])

\* C1 witness: a pass has run two call_soon callbacks in the order of their
\* calls and is over, and a callback that was scheduled during it is queued.
C1_Witness ==
  /\ dfrom # "none" /\ ntodo = 0 /\ cur = 0
  /\ Len(ran) = 2 /\ ran[1] < ran[2]
  /\ handles[ran[1]].kind = "soon" /\ handles[ran[2]].kind = "soon"
  /\ Len(ready) = 1 /\ handles[ready[1]].kind = "soon" /\ ~handles[ready[1]].cancelled

\* C2: a cancelled handle stays cancelled and its callback is never entered,
\* whoever starts the pass and wherever the handle is.
C2_CancelledNeverRuns ==
  [][\A h \in HandleIds :
       handles[h].cancelled => (handles'[h].cancelled /\ (cur' = h => cur = h))]_vars

\* C2 witness: a handle that was cancelled while it was queued has been popped
\* by a pass and was not run.
C2_Witness ==
  /\ dfrom # "none"
  /\ \E j \in PoppedSoFar : handles[snap[j]].cancelled /\ ~InSeq(ran, snap[j])

AddOps == {"add_reader", "add_writer", "add_signal_handler", "add_child_handler"}

RemoveOps == {"remove_reader", "remove_writer", "remove_signal_handler",
              "remove_child_handler"}

\* The table an add_* or remove_* call is about, among the four given.
TableOf(op, r, w, s, c) ==
  CASE op \in {"add_reader", "remove_reader"} -> r
    [] op \in {"add_writer", "remove_writer"} -> w
    [] op \in {"add_signal_handler", "remove_signal_handler"} -> s
    [] OTHER -> c

KindOf(op) ==
  CASE op \in {"add_reader", "remove_reader"} -> "reader"
    [] op \in {"add_writer", "remove_writer"} -> "writer"
    [] op \in {"add_signal_handler", "remove_signal_handler"} -> "signal"
    [] OTHER -> "child"

\* The handles of a kind and key that are not cancelled and whose watch is live.
Active(kind, k) ==
  {h \in Allocated : /\ handles[h].kind = kind /\ handles[h].key = k
                     /\ handles[h].live /\ ~handles[h].cancelled}

\* C3: after a successful add_reader, add_writer, add_signal_handler or
\* _add_child_handler the table maps the key to the new handle, which carries
\* the callback of this call and is the only active handle of that key; the
\* handle the key had before is cancelled, its watch is released, and it is out
\* of the loop's handlers.
C3_AddReplacesRegistration ==
  (lastOp.op \in AddOps /\ lastOp.ret = "ok") =>
    /\ TableOf(lastOp.op, readers, writers, sighandlers, chldhandlers)[lastOp.key]
         = lastOp.h
    /\ handles[lastOp.h].cb = lastOp.cb
    /\ lastOp.h \in handlers
    /\ Active(KindOf(lastOp.op), lastOp.key) = {lastOp.h}
    /\ lastOp.prev # 0 =>
         /\ lastOp.prev # lastOp.h
         /\ handles[lastOp.prev].cancelled
         /\ ~handles[lastOp.prev].live
         /\ lastOp.prev \notin handlers

\* C3 witness: add_reader has replaced a registration that was active, with
\* another callback.
C3_Witness ==
  /\ lastOp.op = "add_reader" /\ lastOp.prev # 0 /\ ~lastOp.again
  /\ handles[lastOp.prev].cb # lastOp.cb

\* The stop done-callback of run_until_complete is queued or being run.
StopCallbackDue ==
  \/ \E i \in 1..Len(ready) : handles[ready[i]].cb = "stopcb"
  \/ cur # 0 /\ handles[cur].cb = "stopcb"

\* C4: run_until_complete returns the future's result exactly when the future
\* is done and the run was not interrupted, and raises 'Event loop stopped
\* before Future completed.' exactly when the run ended with the future not
\* done and no interrupt; when it leaves, by any of the three ways, the stop
\* done-callback is no longer installed and the loop is not running.  While it
\* runs, a future that is done has its stop callback due or the quit asked, so
\* the run ends.
C4_RunUntilComplete ==
  /\ lastOp.op = "run_until_complete" =>
       /\ ~stopCb
       /\ ~ruc /\ pc = "idle" /\ ~IsRunning
       /\ lastOp.ret \in {"result", "incomplete", "interrupted"}
       /\ lastOp.ret = "result" => (taskDone /\ lastOp.val = taskResult
                                     /\ taskResult \in Results)
       /\ lastOp.ret = "incomplete" => ~taskDone
       /\ taskDone => lastOp.ret \in {"result", "interrupted"}
  /\ (ruc /\ taskDone /\ pc \in {"ruc_call", "rf_init", "rf_check", "running"}) =>
       (StopCallbackDue \/ quit)
  /\ (ruc /\ ~taskDone /\ pc \in {"ruc_call", "rf_init", "rf_check", "running"}) =>
       stopCb

\* C4 witness: run_until_complete has returned the result the task set during
\* the run.
C4_Witness ==
  /\ lastOp.op = "run_until_complete" /\ lastOp.ret = "result"
  /\ lastOp.val \in Results /\ ~stopCb

\* C5: a run_forever() on the default context that blocked, that had one
\* interrupt to handle and in which nothing else called stop(), ends raising
\* KeyboardInterrupt after exactly one stop(), called by the interrupt
\* callback, and leaves the loop not running with the interrupted flag cleared.
C5_InterruptEndsRun ==
  (/\ lastOp.op = "run_forever" /\ lastOp.ret # "usage_error"
   /\ lastOp.blocked /\ lastOp.sigints = 1 /\ lastOp.otherStops = 0) =>
    /\ lastOp.ret = "interrupted"
    /\ lastOp.intStops = 1
    /\ ctxDefault
    /\ ~IsRunning /\ mainloop = 0 /\ ~running
    /\ ~interrupted

\* C5 witness: the owned variant blocked, took one interrupt and raised.
C5_Witness ==
  /\ lastOp.op = "run_forever" /\ lastOp.ret = "interrupted"
  /\ variant = "glib" /\ lastOp.blocked
  /\ lastOp.sigints = 1 /\ lastOp.intStops = 1 /\ lastOp.otherStops = 0

\* C6: in the owned variant, once the first pass of run_forever() is over and
\* stop() was called in it, the next step is the exit of run_forever() without
\* blocking: the loop is not running, and the queue is what it was, its handles
\* untouched and the wakeup timeout still to fire; what the first pass leaves
\* in the queue is what was scheduled during it.
C6_StopInFirstPass ==
  [][/\ (variant = "glib" /\ pc = "rf_check" /\ nIntStop + nOtherStop > 0) =>
       /\ pc' \in {"idle", "ruc_ok", "ruc_exc"}
       /\ lastOp'.op = "run_forever" /\ ~lastOp'.blocked
       /\ lastOp'.ret \in {"returned", "interrupted"}
       /\ mainloop' = 0 /\ ~IsRunning'
       /\ ready' = ready /\ handles' = handles
       /\ ready # <<>> => (wakeup' /\ wakeupLive' > 0)
     /\ (pc = "rf_init" /\ pc' = "rf_check") =>
          /\ ready' = ready
          /\ \A i \in 1..Len(ready) : ~InSeq(snap, ready[i]) /\ ~InSeq(ran, ready[i])]_vars

\* C6 witness: run_forever() has returned without blocking and a callback
\* scheduled during its first pass is queued.
C6_Witness ==
  /\ variant = "glib"
  /\ lastOp.op = "run_forever" /\ ~lastOp.blocked /\ lastOp.ret = "returned"
  /\ pc = "idle" /\ mainloop = 0
  /\ Len(ready) > 0 /\ ~handles[ready[1]].cancelled /\ handles[ready[1]].kind = "soon"

\* C7: a run_forever() that raises 'Event loop is running.' was called on a
\* running loop and changes nothing: the loop is still running, with the same
\* main loop, quit request and position of the outer run; and a blocking run
\* ends only after a stop() that was called during it.
C7_NestedRunForever ==
  [][/\ (lastOp'.op = "run_forever" /\ lastOp'.ret = "usage_error") =>
          /\ IsRunning /\ IsRunning'
          /\ mainloop' = mainloop /\ running' = running /\ quit' = quit
          /\ interrupted' = interrupted
          /\ pc' = pc /\ pc \in {"rf_init", "running"}
          /\ handles' = handles /\ handlers' = handlers /\ ready' = ready
     /\ (pc = "running" /\ pc' # "running") =>
          (quit /\ nIntStop + nOtherStop > 0)]_vars

\* C7 witness: a callback of a blocking run called run_forever() and got the
\* error, the main loop being the one of the outer run.
C7_Witness ==
  /\ lastOp.op = "run_forever" /\ lastOp.ret = "usage_error"
  /\ pc = "running" /\ variant = "glib" /\ mainloop # 0 /\ ~quit

\* C8: right after close() the loop's set of handles is empty, every handle
\* that is queued is cancelled, no watch of a handle and no wakeup timeout is
\* live, and the default-interrupt multiplexer does not target the loop.
C8_CloseLeavesNothing ==
  lastOp.op = "close" =>
    /\ handlers = {}
    /\ \A h \in Allocated : ~handles[h].live
    /\ \A i \in 1..Len(ready) : handles[ready[i]].cancelled
    /\ wakeupLive = 0
    /\ sigTarget # "self"

\* The handles a step cancels through cancel(), remove_* or the removal that
\* begins add_*.
CancelledBy(op) ==
  IF op.op = "cancel" THEN {op.h}
  ELSE IF op.op \in (RemoveOps \cup AddOps) /\ op.prev # 0 THEN {op.prev}
  ELSE {}

\* C9: after cancel() the handle is marked cancelled, its watch is released and
\* it is not in the loop's set of handles; a cancel() of a handle that was
\* cancelled already, whatever its kind, succeeds and leaves every handle and
\* the set as they were.
C9_CancelIdempotent ==
  [][\A h \in CancelledBy(lastOp') :
       /\ handles'[h].cancelled
       /\ ~handles'[h].live
       /\ h \notin handlers'
       /\ lastOp'.again = handles[h].cancelled
       /\ handles[h].cancelled =>
            /\ handles'[h] = handles[h]
            /\ handlers' \ {lastOp'.h} = handlers
            /\ \A g \in Allocated : handles'[g] = handles[g]
            /\ \A i \in 1..Len(ready) : ready'[i] = ready[i]]_vars

\* C9 witness: the handle of a child watch, cancelled by close(), has been
\* cancelled again by _remove_child_handler.
C9_Witness ==
  /\ lastOp.op = "remove_child_handler" /\ lastOp.again /\ lastOp.prev # 0
  /\ handles[lastOp.prev].kind = "child" /\ handles[lastOp.prev].cancelled

\* C10: remove_reader, remove_writer, remove_signal_handler and
\* _remove_child_handler return True exactly when the key was registered;
\* afterwards the key is not registered and the handle it had is cancelled,
\* released and out of the loop's set; with no registration the call returns
\* False and changes no table, handle, queue or run state.
C10_RemoveReturns ==
  [][lastOp'.op \in RemoveOps =>
       LET before == TableOf(lastOp'.op, readers, writers, sighandlers, chldhandlers)
           after == TableOf(lastOp'.op, readers', writers', sighandlers', chldhandlers')
           k == lastOp'.key
       IN /\ lastOp'.ret \in {"true", "false"}
          /\ (lastOp'.ret = "true") <=> (before[k] # 0)
          /\ after[k] = 0
          /\ \A j \in DOMAIN before : j # k => after[j] = before[j]
          /\ before[k] # 0 =>
               /\ handles'[before[k]].cancelled
               /\ ~handles'[before[k]].live
               /\ before[k] \notin handlers'
          /\ before[k] = 0 =>
               /\ handles' = handles /\ handlers' = handlers
               /\ tables' = tables /\ qvars' = qvars /\ runvars' = runvars]_vars

\* C10 witness: a second remove_reader of a key has returned False, the handle
\* of the first being cancelled.
C10_Witness ==
  /\ lastOp.op = "remove_reader" /\ lastOp.ret = "false"
  /\ readers[lastOp.key] = 0
  /\ \E h \in Allocated : /\ handles[h].kind = "reader" /\ handles[h].key = lastOp.key
                          /\ handles[h].cancelled /\ h \notin handlers

Count(seq, x) == Cardinality({i \in 1..Len(seq) : seq[i] = x})

\* C11: call_later with a delay <= 0 does what call_soon does: the new handle
\* is a plain one put at the tail of the queue, no watch is made, the set of
\* handles is as it was, and the wakeup timeout is armed exactly when the loop
\* is not in a pass and has none; with a delay > 0 it makes a live timer watch,
\* in the set of handles, and leaves the queue and the wakeup alone.  A timer
\* handle is queued only by its watch, at most once, is run while its watch is
\* live, and once its watch is gone it is out of the set, out of the queue and
\* not running.
C11_CallLater ==
  [][/\ lastOp'.op = "call_later" =>
          LET h == lastOp'.h IN
            IF lastOp'.key <= 0
              THEN /\ ready' = Append(ready, h)
                   /\ handles'[h].kind = "soon" /\ ~handles'[h].live
                   /\ handles'[h].cb = lastOp'.cb /\ ~handles'[h].cancelled
                   /\ handlers' = handlers
                   /\ wakeup' = (wakeup \/ ~will_dispatch)
                   /\ wakeupLive' = IF ~will_dispatch /\ ~wakeup THEN wakeupLive + 1
                                                                ELSE wakeupLive
                   /\ will_dispatch' = will_dispatch
              ELSE /\ ready' = ready
                   /\ handles'[h].kind = "timer" /\ handles'[h].live
                   /\ handles'[h].cb = lastOp'.cb /\ ~handles'[h].cancelled
                   /\ handlers' = handlers \cup {h} /\ h \notin handlers
                   /\ qvars' = qvars
     /\ \A h \in Allocated : handles[h].kind = "timer" =>
          /\ Count(ready, h) <= 1
          /\ (~handles[h].rdy /\ cur # h) => ~InSeq(ready, h)
          /\ (cur' = h /\ cur # h) => (handles[h].live /\ h \in handlers)
          /\ ~handles[h].live =>
               /\ h \notin handlers
               /\ ~handles[h].cancelled => (~InSeq(ready, h) /\ cur # h /\ cur' # h)
               /\ ~handles'[h].live]_vars

\* C11 witness: a call_later with delay 0 has queued a plain handle behind
\* another one, while a timer of an earlier call_later is live.
C11_Witness ==
  /\ lastOp.op = "call_later" /\ lastOp.key = 0
  /\ Len(ready) = 2 /\ ready[2] = lastOp.h /\ handles[lastOp.h].kind = "soon"
  /\ \E t \in Allocated : handles[t].kind = "timer" /\ handles[t].live

\* C13: _add_child_handler on a loop whose context is not the default one
\* raises the usage error, and only there; it leaves the child table without
\* the pid, makes no handle and no watch, and the set of handles is as it was.
C13_ChildHandlerNeedsDefaultContext ==
  [][lastOp'.op = "add_child_handler" =>
       /\ (lastOp'.ret = "usage_error") <=> ~ctxDefault
       /\ ~ctxDefault =>
            /\ chldhandlers'[lastOp'.key] = 0
            /\ nextId' = nextId
            /\ handles' = handles
            /\ handlers' = handlers
            /\ \A h \in HandleIds : handles'[h].kind # "child"]_vars

\* C13 witness: the call has failed on a loop that has another registration.
C13_Witness ==
  /\ lastOp.op = "add_child_handler" /\ lastOp.ret = "usage_error"
  /\ ~ctxDefault /\ handlers # {}

\* C15: a stop() while the loop is not running raises nothing and changes
\* nothing of the loop; no quit request is pending outside a run, so the owned
\* variant enters its blocking run unless stop() was called in the first pass,
\* and a blocking run ends only after a stop() called during it.
C15_IdleStopIsNoOp ==
  [][/\ (lastOp'.op = "stop" /\ ~IsRunning) =>
          /\ runvars' = runvars /\ qvars' = qvars
          /\ handles' = handles /\ handlers' = handlers /\ nextId' = nextId
          /\ pc' = pc /\ passvars' = passvars /\ taskvars' = taskvars
          /\ sigTarget' = sigTarget
     /\ ~IsRunning => ~quit
     /\ (pc = "rf_check" /\ nIntStop + nOtherStop = 0) => pc' = "running"
     /\ (pc = "running" /\ pc' # "running") => nIntStop + nOtherStop > 0]_vars

\* C15 witness: stop() was called on the idle loop, which has work queued.
C15_Witness ==
  /\ lastOp.op = "stop" /\ pc = "idle" /\ ~IsRunning /\ ~quit
  /\ ready # <<>>

\* C20: every entry of the four registration tables names a handle that is
\* not cancelled, whose watch is live and that is in the loop's set.
C20_TablesNameActiveHandles ==
  \A op \in AddOps :
    LET tbl == TableOf(op, readers, writers, sighandlers, chldhandlers) IN
      \A k \in DOMAIN tbl :
        tbl[k] # 0 => /\ ~handles[tbl[k]].cancelled
                      /\ handles[tbl[k]].live

\* C18: outside a dispatch pass a non-empty queue has its wakeup timeout armed,
\* the one the loop refers to; a wakeup callback that ends its pass on an empty
\* queue destroys the timeout and one that ends on a non-empty queue keeps it;
\* and, the context being iterated, every handle in the queue is run or found
\* cancelled.
C18_NoLostWakeup ==
  /\ []((ready # <<>> /\ dfrom = "none") => (wakeup /\ wakeupLive = 1))
  /\ [][(dfrom = "wakeup" /\ dfrom' = "none") =>
          IF ready = <<>> THEN ~wakeup' /\ wakeupLive' = 0
                          ELSE wakeup' /\ wakeupLive' = 1]_vars
  /\ \A h \in HandleIds :
       (InSeq(ready, h) /\ ~handles[h].cancelled)
         ~> (cur = h \/ handles[h].cancelled)

\* C18 witness: a wakeup callback has ended its pass on an empty queue and the
\* timeout is gone, the pass having run a callback.
C18_Witness ==
  /\ lastOp.op = "none" /\ dfrom = "none" /\ pc = "idle"
  /\ ready = <<>> /\ ~wakeup /\ wakeupLive = 0
  /\ nextId > 2 /\ \A h \in Allocated : handles[h].kind = "soon" /\ ~handles[h].cancelled

\* The return code the child callback of handle h appended last.
LastArg(h) == args[h][Len(args[h])]

\* C12 as claimed: exit status 137 is decoded to 9, exit status 0 to 0 and
\* death by signal 9 to -9.
C12_AsClaimed ==
  \A h \in Allocated : args[h] # <<>> =>
    /\ childStatus[h] = Exited(137) => LastArg(h).code = 9
    /\ childStatus[h] = Exited(0) => LastArg(h).code = 0
    /\ childStatus[h] = Signaled(9) => LastArg(h).code = 0 - 9

\* C12: the child callback appends one return code to the arguments of its
\* handle, before the handle is queued: for a child that exited, the exit
\* status when it is at most 128 and 128 minus the exit status above that, so
\* 0 for 0 and -9 for 137; for a child killed by a signal, minus the signal, so
\* -9 for signal 9; None for any other status.
C12_ChildReturnCode ==
  /\ \A h \in Allocated :
       /\ Len(args[h]) <= 1
       /\ (InSeq(ready, h) \/ cur = h) => Len(args[h]) = 1
       /\ args[h] # <<>> =>
            LET st == childStatus[h]
                rc == LastArg(h)
            IN /\ handles[h].kind = "child"
               /\ st = Exited(0) => (~rc.none /\ rc.code = 0)
               /\ st = Exited(137) => (~rc.none /\ rc.code = 0 - 9)
               /\ st = Signaled(9) => (~rc.none /\ rc.code = 0 - 9)
               /\ \A c \in ExitCodes : st = Exited(c) =>
                    (~rc.none /\ rc.code = IF c > 128 THEN 128 - c ELSE c)
               /\ \A g \in TermSignals : st \in {Signaled(g), CoreDumped(g)} =>
                    (~rc.none /\ rc.code = 0 - g)
               /\ \A g \in TermSignals : st = Stopped(g) => rc.none

\* C12 witness: the callback of a child that exited with status 137 is running
\* with the return code -9 as its last argument.
C12_Witness ==
  /\ cur # 0 /\ handles[cur].kind = "child"
  /\ childStatus[cur] = Exited(137)
  /\ Len(args[cur]) = 1 /\ LastArg(cur).code = 0 - 9

\* C14: the loop the multiplexer refers to is the loop made last on the
\* default context; an interrupt queues the interrupt callback on that loop
\* and on no other; the callback sets the interrupted flag and stops a running
\* loop; and making a loop while another is attached succeeds, logs a warning
\* and attaches the new loop.
C14_InterruptGoesToLastLoop ==
  [][/\ sigTarget = lastMade
     /\ (nextId' # nextId /\ handles'[nextId].cb = "interrupt") =>
          /\ lastMade = "self"
          /\ otherReady' = otherReady
          /\ ready' = Append(ready, nextId)
     /\ otherReady' # otherReady =>
          /\ lastMade \in OtherLoops
          /\ otherReady' = [otherReady EXCEPT ![lastMade] = Inc2(@)]
          /\ handles' = handles /\ ready' = ready
     /\ others' # others =>
          /\ lastOp'.ret = "ok"
          /\ sigTarget' \in others' \ others
          /\ lastMade' = sigTarget'
          /\ warnings' = IF sigTarget # "none" THEN Inc2(warnings) ELSE warnings
     /\ (cur # 0 /\ handles[cur].cb = "interrupt" /\ cur' = 0) =>
          (interrupted' /\ (IsRunning => quit'))]_vars

\* C14 witness: two loops were made after this one on the default context,
\* each with a warning, and an interrupt has gone to the last one only.
C14_Witness ==
  /\ ctxDefault /\ others = OtherLoops /\ warnings = 2
  /\ otherReady[lastMade] = 1
  /\ \A o \in OtherLoops \ {lastMade} : otherReady[o] = 0
  /\ \A h \in Allocated : handles[h].cb # "interrupt"

\* The loops the policy made on the default context.
DefaultLoops == {i \in 1..Len(polLoops) : polLoops[i].ctx = "default"}

\* C16 in a state: the policy made at most one loop on the default context,
\* the one it keeps; with default=True get_default_loop() and new_event_loop()
\* from the main thread return that loop; from another thread new_event_loop()
\* returns a new loop, a GLib one exactly when full=True; and with
\* default=False get_default_loop() raises the usage error and makes nothing.
PolicyHolds ==
  /\ Cardinality(DefaultLoops) <= 1
  /\ DefaultLoops = IF polDefaultLoop = 0 THEN {} ELSE {polDefaultLoop}
  /\ polDefaultLoop # 0 => polLoops[polDefaultLoop].kind = variant
  /\ polLast.op = "get_default_loop" =>
       IF polDefault
         THEN polLast.ret # 0 /\ polLast.ret = polDefaultLoop
         ELSE polLast.kind = "usage_error" /\ polLast.ret = 0 /\ polDefaultLoop = 0
  /\ (polLast.op = "new_event_loop" /\ polLast.main /\ polDefault) =>
       (polLast.ret # 0 /\ polLast.ret = polDefaultLoop)
  /\ (polLast.op = "new_event_loop" /\ ~polLast.main) =>
       /\ polLast.ret = Len(polLoops)
       /\ polLast.ret \notin DefaultLoops
       /\ (polLoops[polLast.ret].kind = "glib") <=> polFull
       /\ (polLoops[polLast.ret].kind = "plain") <=> ~polFull

\* C16: the above after every step, and the default loop, once made, is the
\* same for ever.
C16_PolicyLoops ==
  [][PolicyHolds' /\ (polDefaultLoop # 0 => polDefaultLoop' = polDefaultLoop)]_vars

\* C16 witness: with the default arguments another thread got a plain loop
\* first, then the main thread got the default loop twice.
C16_Witness ==
  /\ polDefault /\ ~polFull
  /\ polLast.op = "new_event_loop" /\ polLast.main
  /\ polDefaultLoop = 2 /\ polLast.ret = 2 /\ Len(polLoops) = 2
  /\ polLoops[1].kind = "plain"

\* C17: the context holds at most one live wakeup timeout of the loop, and
\* the wakeup callback never finds self._wakeup cleared, while another thread
\* schedules callbacks through call_soon_threadsafe.
C17_OneWakeup == wakeupLive <= 1 /\ broken # "AttributeError"

\* C19: no pass starts while another is in progress, a pass in progress has
\* the in-progress flag set and has popped only handles of its snapshot, and
\* no pass pops from an empty queue, also when a callback iterates the context.
C19_PassesDoNotOverlap ==
  /\ outer = NoPass
  /\ broken # "IndexError"
  /\ dfrom # "none" => will_dispatch
  /\ dfrom # "none" => \A i \in 1..Len(ran) : InSeq(snap, ran[i])

\* C23: while the loop is idle its interrupted flag is clear, and a
\* run_forever() that ends raising KeyboardInterrupt had an interrupt callback
\* call stop() during that run.
C23_InterruptedOnlyInRun ==
  /\ pc = "idle" => ~interrupted
  /\ (lastOp.op = "run_forever" /\ lastOp.ret = "interrupted") => lastOp.intStops >= 1

\* C21 as claimed: a watch callback that returns 'keep running' is that of a
\* handle that is not cancelled.
C21_AsClaimed ==
  (lastOp.op = "_callback" /\ lastOp.ret = "keep") => ~handles[lastOp.h].cancelled

\* C21: the watch callback of a reader, writer or signal handle returns 'keep
\* running' and that of a timer returns 'stop', cancelled or not; after 'stop'
\* the handle is out of the loop's set of handles and its watch is gone; and a
\* handle cancelled during the pass has no watch left and is out of the set
\* whatever its callback returns.
C21_WatchCallbackReturns ==
  lastOp.op = "_callback" =>
    LET h == lastOp.h IN
      /\ h \in Allocated
      /\ lastOp.ret \in {"keep", "stop"}
      /\ lastOp.ret = "keep" <=> handles[h].kind \in {"reader", "writer", "signal"}
      /\ lastOp.ret = "stop" <=> handles[h].kind = "timer"
      /\ lastOp.ret = "stop" => (h \notin handlers /\ ~handles[h].live)
      /\ handles[h].cancelled => (h \notin handlers /\ ~handles[h].live)
      /\ (lastOp.ret = "keep" /\ ~handles[h].cancelled) => (h \in handlers /\ handles[h].live)

\* C21 witness: the callback of a reader removed its registration, and the
\* watch callback returned 'keep running' for the cancelled handle.
C21_Witness ==
  /\ lastOp.op = "_callback" /\ lastOp.ret = "keep"
  /\ handles[lastOp.h].kind = "reader" /\ handles[lastOp.h].cancelled
  /\ \A fd \in Fds : readers[fd] = 0

\* The pass in progress was started by the watch of a handle.
WatchPass == dfrom \in {"source", "child"}

\* C22: a user callback starts only by a pop inside a dispatch pass; the step
\* in which a watch calls back runs no callback, leaves the queue as it was but
\* for the handle of the watch put at its tail, once, and starts a pass over
\* that queue; and when that handle runs in this pass, every handle that was
\* queued before it has run or is cancelled.
C22_WatchOnlyEnqueues ==
  [][/\ (cur' # 0 /\ cur' # cur) =>
          /\ dfrom # "none" /\ dfrom' = dfrom
          /\ ready # <<>> /\ cur' = Head(ready) /\ ready' = Tail(ready)
     /\ (dfrom = "none" /\ WatchPass') =>
          /\ cur = 0 /\ cur' = 0
          /\ ready' = ready \/ ready' = Append(ready, dsrc')
          /\ Count(ready', dsrc') = 1
          /\ ready'[Len(ready')] = dsrc' \/ ready' = ready
          /\ snap' = ready' /\ ran' = <<>> /\ will_dispatch'
     /\ (WatchPass' /\ InSeq(ran', dsrc')) =>
          \A j \in 1..Len(snap') :
            (snap'[j] # dsrc' /\ j < Pos(snap', dsrc')) =>
              \/ handles'[snap'[j]].cancelled
              \/ (InSeq(ran', snap'[j]) /\ Pos(ran', snap'[j]) < Pos(ran', dsrc'))]_vars

\* C22 witness: the watch of a reader called back while a call_soon handle was
\* queued; the pass has run that handle first and is running the reader's now.
C22_Witness ==
  /\ dfrom = "source" /\ handles[dsrc].kind = "reader"
  /\ Len(snap) = 2 /\ snap[2] = dsrc /\ handles[snap[1]].kind = "soon"
  /\ ran = snap /\ cur = dsrc

====
